---- MODULE Spec2Model ----
(***************************************************************************)
(* Delivery / billing reconciliation engine of the EnergyPac ERP backend:  *)
(* work orders and their items, bills and bill items, the payment ledger,  *)
(* product stock and purchase-order receipt.                               *)
(*                                                                         *)
(* Decimal quantities and amounts are modelled as integers.  The catalogue *)
(* below uses whole quantities and rates that are multiples of 100, so     *)
(* every product and every percentage the code computes is a whole number  *)
(* and Decimal arithmetic is exact: storage rounding to two decimal places *)
(* is outside this model.                                                  *)
(***************************************************************************)
EXTENDS Integers, Sequences, FiniteSets, TLC

\* ------------------------------------------------------------------ bounds
MaxBills == 2
MaxItems == 2
MaxQty == 1
\* bills created in the runs that interleave requests
MaxBillsInterleaved == 1
\* payment rows in the runs in which a bill's amount_paid can be set back
MaxPayments == 2

\* --------------------------------------------------------------- catalogue
NoProduct == "none"
NoBill == 0
Products == {"p1"}
WorkOrders == {"w1", "w2"}
WorkOrderItems == {"i1", "i2"}
PurchaseOrders == {"o1"}
PurchaseOrderItems == {"q1", "q2"}

\* delivered_quantity is a DecimalField without a minimum: a request may
\* name a negative quantity
DeliveredQtys == {0 - 1} \cup (1 .. MaxQty)
PayAmounts == {0, 59, 118}
PayModes == {"CASH", "WIRE"}
\* payment_date as the request gives it, split at the dashes (<<>>: none
\* given, the payment is dated today)
PayDates == {<<2026, 1, 15>>, <<15, 1, 2026>>}
\* the status a PATCH of a work order or of a purchase order asks for
WorkOrderStatusUpdates == {"CANCELLED"}
PurchaseOrderStatusUpdates == {"COMPLETED"}
\* the amount_paid a PUT or PATCH of a bill asks for
BillUpdateAmounts == {0, 59}
AdvanceAmounts == {0, 150}

PAYMENT_MODE_CHOICES == {"CASH", "CHEQUE", "NEFT", "RTGS", "IMPS", "UPI", "OTHER"}

InitStock == [p \in Products |-> 1]

InitWorkOrder ==
  [w1 |-> [status |-> "ACTIVE", cgst_percentage |-> 9, sgst_percentage |-> 9,
           igst_percentage |-> 0, advance_amount |-> 150, advance_deducted |-> 0,
           advance_remaining |-> 150, total_delivered_value |-> 0],
   w2 |-> [status |-> "ACTIVE", cgst_percentage |-> 0, sgst_percentage |-> 0,
           igst_percentage |-> 18, advance_amount |-> 0, advance_deducted |-> 0,
           advance_remaining |-> 0, total_delivered_value |-> 0]]

InitWorkOrderItem ==
  [i1 |-> [work_order |-> "w1", product |-> "p1", ordered_quantity |-> 2,
           delivered_quantity |-> 0, pending_quantity |-> 2, rate |-> 100],
   i2 |-> [work_order |-> "w2", product |-> NoProduct, ordered_quantity |-> 1,
           delivered_quantity |-> 0, pending_quantity |-> 1, rate |-> 100]]

InitPurchaseOrder == [o \in PurchaseOrders |-> [status |-> "PENDING"]]

InitPurchaseOrderItem ==
  [q1 |-> [po |-> "o1", product |-> "p1", quantity |-> 1, is_received |-> FALSE],
   q2 |-> [po |-> "o1", product |-> "p1", quantity |-> 1, is_received |-> FALSE]]

\* ------------------------------------------------------------------- state
VARIABLES
  stock,      \* Product.current_stock
  wo,         \* WorkOrder rows
  woi,        \* WorkOrderItem rows
  bills,      \* Bill rows with their BillItems, by creation order
  payments,   \* BillPayment rows, by creation order
  po,         \* PurchaseOrder rows
  poi,        \* PurchaseOrderItem rows
  inflight,   \* the requests that overlap: idle, under way (with what the
              \* request holds in memory) or done
  last,       \* the last request answered and its outcome
  earlier     \* how many bills the year had before those of `bills`: raised
              \* on other work orders, they carry the numbers 1 .. earlier

vars == <<stock, wo, woi, bills, payments, po, poi, inflight, last, earlier>>

Requests == {"r1", "r2", "r3"}
\* the requests that create bills concurrently
Creators == {"r1", "r2"}
\* the requests that cancel a bill concurrently
Cancellers == {"r1", "r2"}
Idle == [pc |-> "idle"]
Done == [pc |-> "done"]

\* op: the endpoint; ok: whether it was accepted; bill: the bill it names or
\* created; why: the validation errors of a rejected bill creation, the items
\* reversed by the cancellation of a purchase order; direct:
\* an accepted cancellation that directly follows the creation of its bill
Outcome(op, ok, bill) == [op |-> op, ok |-> ok, bill |-> bill, why |-> {}, direct |-> FALSE]
NoRequest == Outcome("none", FALSE, NoBill)

\* ----------------------------------------------------------------- helpers
RECURSIVE SumSeq(_, _)
SumSeq(s, k) == IF k = 0 THEN 0 ELSE s[k] + SumSeq(s, k - 1)

Min(a, b) == IF a < b THEN a ELSE b

SeqsUpTo(S, n) == UNION {[1..k -> S] : k \in 1..n}

ItemInputs == [work_order_item : WorkOrderItems, delivered_quantity : DeliveredQtys]

\* -------------------------------------------------------------- work order
\* WorkOrderItem.save: pending_quantity is recomputed on every save
WorkOrderItemSave(row) ==
  [row EXCEPT !.pending_quantity = row.ordered_quantity - row.delivered_quantity]

\* WorkOrder.save: advance_remaining is recomputed on every save
WorkOrderSave(row) ==
  [row EXCEPT !.advance_remaining = row.advance_amount - row.advance_deducted]

ItemsOf(w, wi) == {i \in WorkOrderItems : wi[i].work_order = w}

RECURSIVE TotalPending(_, _)
TotalPending(S, wi) ==
  IF S = {} THEN 0
  ELSE LET i == CHOOSE x \in S : TRUE
       IN wi[i].pending_quantity + TotalPending(S \ {i}, wi)

\* WorkOrder.update_status, called on the work order row `row` of w with the
\* items read from the database
UpdateStatus(w, row, wi) ==
  LET items == ItemsOf(w, wi)
  IN IF items = {} THEN row
     ELSE WorkOrderSave(
            [row EXCEPT !.status =
               IF TotalPending(items, wi) = 0 THEN "COMPLETED"
               ELSE IF \E i \in items : wi[i].delivered_quantity > 0
                    THEN "PARTIALLY_DELIVERED"
                    ELSE "ACTIVE"])

\* ------------------------------------------------------- bill: validation
\* BillCreateSerializer.validate_work_order (every id of WorkOrders exists)
ValidateWorkOrder(w, worows) == worows[w].status # "COMPLETED"

\* validate_items without its stock check
ValidateItem_NoStockCheck(it, wi, st) ==
  ~(it.delivered_quantity > wi[it.work_order_item].pending_quantity)

\* one pass of the loop of BillCreateSerializer.validate_items
ValidateItem(it, wi, st) ==
  LET wo_item == wi[it.work_order_item]
      delivered_qty == it.delivered_quantity
  IN /\ ~(delivered_qty > wo_item.pending_quantity)
     /\ wo_item.product # NoProduct => ~(st[wo_item.product] < delivered_qty)

\* BillCreateSerializer.validate_items
ValidateItems(items, wi, st) ==
  /\ Len(items) > 0
  /\ \A k \in 1..Len(items) : ValidateItem(items[k], wi, st)

\* the error validate_items raises: that of the first check that fails
RECURSIVE ItemsError(_, _, _, _)
ItemsError(items, k, wi, st) ==
  IF Len(items) = 0 THEN {"no_items"}
  ELSE IF k > Len(items) THEN {}
  ELSE LET wo_item == wi[items[k].work_order_item]
       IN IF ValidateItem(items[k], wi, st) THEN ItemsError(items, k + 1, wi, st)
          ELSE IF items[k].delivered_quantity > wo_item.pending_quantity
               THEN {"exceeds_pending"}
               ELSE {"insufficient_stock"}

\* the errors the serializer reports, one per field
CreateErrors(w, items, worows, wi, st) ==
  (IF ValidateWorkOrder(w, worows) THEN {} ELSE {"work_order_completed"})
    \cup ItemsError(items, 1, wi, st)

\* one pass of the loop of StockValidationSerializer.validate_items: the
\* issue it appends, if any
StockIssue(it, wi, st) ==
  LET wo_item == wi[it.work_order_item]
      delivered_qty == it.delivered_quantity
  IN IF delivered_qty > wo_item.pending_quantity THEN {"EXCEEDS_PENDING"}
     ELSE IF wo_item.product # NoProduct /\ st[wo_item.product] < delivered_qty
          THEN {"INSUFFICIENT_STOCK"}
          ELSE {}

\* StockValidationSerializer.validate_items: stock_issues
StockIssues(items, wi, st) ==
  UNION {StockIssue(items[k], wi, st) : k \in 1..Len(items)}

\* POST /api/bills/validate_stock: work_order is a UUIDField without a check
\* of its own; stock_available is true when the serializer is valid
ValidateStock(w, items) ==
  /\ last' = [Outcome("validate_stock", StockIssues(items, woi, stock) = {}, NoBill)
                EXCEPT !.why = StockIssues(items, woi, stock)]
  /\ UNCHANGED <<stock, wo, woi, bills, payments, po, poi, inflight, earlier>>

\* --------------------------------------------------------- bill: creation
\* BillItem.save pricing the ordered quantity instead of the delivered one
BillItemSave_OrderedAmount(it, wi) ==
  LET wo_item == wi[it.work_order_item]
  IN [work_order_item |-> it.work_order_item,
      product |-> wo_item.product,
      rate |-> wo_item.rate,
      ordered_quantity |-> wo_item.ordered_quantity,
      previously_delivered_quantity |-> wo_item.delivered_quantity,
      delivered_quantity |-> it.delivered_quantity,
      amount |-> wo_item.ordered_quantity * wo_item.rate,
      pending_quantity |->
        wo_item.ordered_quantity - (wo_item.delivered_quantity + it.delivered_quantity)]

\* BillItem.save: the snapshot of the work order item
BillItemSave(it, wi) ==
  LET wo_item == wi[it.work_order_item]
  IN [work_order_item |-> it.work_order_item,
      product |-> wo_item.product,
      rate |-> wo_item.rate,
      ordered_quantity |-> wo_item.ordered_quantity,
      previously_delivered_quantity |-> wo_item.delivered_quantity,
      delivered_quantity |-> it.delivered_quantity,
      amount |-> it.delivered_quantity * wo_item.rate,
      pending_quantity |->
        wo_item.ordered_quantity - (wo_item.delivered_quantity + it.delivered_quantity)]

\* A bill_number is 'BILL/{year}/' followed by decimal digits; the model
\* keeps the digits, as a sequence, and one calendar year.
RECURSIVE Digits(_)
Digits(n) == IF n < 10 THEN <<n>> ELSE Append(Digits(n \div 10), n % 10)

\* f'{new_num:04d}': the digits of new_num, with zeros in front up to four
Format04d(new_num) ==
  LET d == Digits(new_num)
  IN IF Len(d) >= 4 THEN d ELSE [k \in 1..(4 - Len(d)) |-> 0] \o d

\* int(bill_number.split('/')[-1])
RECURSIVE ParseInt(_)
ParseInt(d) ==
  IF Len(d) = 0 THEN 0 ELSE 10 * ParseInt(SubSeq(d, 1, Len(d) - 1)) + d[Len(d)]

\* the order of the database on strings of digits, character by character
RECURSIVE StrLess(_, _)
StrLess(a, b) ==
  IF Len(b) = 0 THEN FALSE
  ELSE IF Len(a) = 0 THEN TRUE
  ELSE IF a[1] # b[1] THEN a[1] < b[1]
  ELSE StrLess(Tail(a), Tail(b))

StrMax(a, b) == IF StrLess(a, b) THEN b ELSE a

\* the number that sorts last among those of the bills numbered lo .. hi
RECURSIVE LastOfRange(_, _)
LastOfRange(lo, hi) ==
  IF lo > hi THEN <<>>
  ELSE IF lo = hi THEN Format04d(lo)
  ELSE LET mid == (lo + hi) \div 2
       IN StrMax(LastOfRange(lo, mid), LastOfRange(mid + 1, hi))

\* the bills a year can have before those of `bills`
EarlierBills == {0, 9998, 9999}

LastOfEarlier == [n \in EarlierBills |-> LastOfRange(1, n)]

\* Bill.objects.filter(bill_number__startswith=...).order_by('-bill_number')
\* .first(): the number that sorts last as a string, <<>> if there is no bill
RECURSIVE LastBillNumber(_, _, _)
LastBillNumber(bs, k, n) ==
  IF k = 0 THEN LastOfEarlier[n]
  ELSE StrMax(LastBillNumber(bs, k - 1, n), bs[k].bill_number)

\* unique=True of Bill.bill_number: the INSERT of a number that a bill of the
\* year carries fails with an IntegrityError
NumberIsFree(bill_number, bs, n) ==
  /\ \A k \in 1..Len(bs) : bs[k].bill_number # bill_number
  /\ ~(ParseInt(bill_number) \in 1..n /\ Format04d(ParseInt(bill_number)) = bill_number)

\* Bill.save on a new row: the next number of the year
BillSave(w, bs, n) ==
  [work_order |-> w,
   bill_number |->
     LET last_bill == LastBillNumber(bs, Len(bs), n)
         new_num == IF last_bill # <<>> THEN ParseInt(last_bill) + 1 ELSE 1
     IN Format04d(new_num),
   items |-> <<>>,
   subtotal |-> 0, cgst_amount |-> 0, sgst_amount |-> 0, igst_amount |-> 0,
   total_amount |-> 0, advance_deducted |-> 0, net_payable |-> 0,
   amount_paid |-> 0, balance |-> 0, status |-> "GENERATED"]

\* calculate_totals deducting the whole remaining advance, without the cap at
\* the bill's total
CalculateTotals_Uncapped(bill, worow) ==
  LET subtotal == SumSeq([k \in 1..Len(bill.items) |-> bill.items[k].amount],
                         Len(bill.items))
      total_amount == subtotal
                      + (subtotal * worow.cgst_percentage) \div 100
                      + (subtotal * worow.sgst_percentage) \div 100
                      + (subtotal * worow.igst_percentage) \div 100
      net_payable == total_amount - worow.advance_remaining
  IN [bill EXCEPT !.subtotal = subtotal,
                  !.cgst_amount = (subtotal * worow.cgst_percentage) \div 100,
                  !.sgst_amount = (subtotal * worow.sgst_percentage) \div 100,
                  !.igst_amount = (subtotal * worow.igst_percentage) \div 100,
                  !.total_amount = total_amount,
                  !.advance_deducted = worow.advance_remaining,
                  !.net_payable = net_payable,
                  !.balance = net_payable - bill.amount_paid]

\* Bill.calculate_totals
CalculateTotals(bill, worow) ==
  LET subtotal == SumSeq([k \in 1..Len(bill.items) |-> bill.items[k].amount],
                         Len(bill.items))
      cgst_amount == (subtotal * worow.cgst_percentage) \div 100
      sgst_amount == (subtotal * worow.sgst_percentage) \div 100
      igst_amount == (subtotal * worow.igst_percentage) \div 100
      total_amount == subtotal + cgst_amount + sgst_amount + igst_amount
      available_advance == worow.advance_remaining
      advance_deducted == Min(total_amount, available_advance)
      net_payable == total_amount - advance_deducted
  IN [bill EXCEPT !.subtotal = subtotal,
                  !.cgst_amount = cgst_amount,
                  !.sgst_amount = sgst_amount,
                  !.igst_amount = igst_amount,
                  !.total_amount = total_amount,
                  !.advance_deducted = advance_deducted,
                  !.net_payable = net_payable,
                  !.balance = net_payable - bill.amount_paid]

\* Bill.update_work_order_advance
UpdateWorkOrderAdvance(bill, worow) ==
  WorkOrderSave([worow EXCEPT !.advance_deducted = @ + bill.advance_deducted,
                              !.total_delivered_value = @ + bill.total_amount])

\* one pass of the loop of Bill.deduct_stock, on the pair (stock, items)
DeductStockItem(bi, db) ==
  IF bi.product # NoProduct
  THEN [stock |-> [db.stock EXCEPT ![bi.product] = @ - bi.delivered_quantity],
        woi |-> [db.woi EXCEPT ![bi.work_order_item] =
                   WorkOrderItemSave(
                     [@ EXCEPT !.delivered_quantity = @ + bi.delivered_quantity])]]
  ELSE db

RECURSIVE DeductStock(_, _, _)
DeductStock(items, k, db) ==
  IF k = 0 THEN db ELSE DeductStockItem(items[k], DeductStock(items, k - 1, db))

\* BillCreateSerializer.create: the database after the bill is created
CreateBill(w, items, st, worows, wi, bs, n) ==
  LET header == BillSave(w, bs, n)
      withItems == [header EXCEPT !.items =
                      [k \in 1..Len(items) |-> BillItemSave(items[k], wi)]]
      bill == CalculateTotals(withItems, worows[w])
      wo1 == UpdateWorkOrderAdvance(bill, worows[w])
      db == DeductStock(bill.items, Len(bill.items), [stock |-> st, woi |-> wi])
  IN [stock |-> db.stock,
      woi |-> db.woi,
      wo |-> [worows EXCEPT ![w] = UpdateStatus(w, wo1, db.woi)],
      bills |-> Append(bs, bill)]

\* POST /api/bills.  Bill.objects.create is the first write of create: when
\* its INSERT fails nothing has been written
BillCreate(w, items) ==
  /\ Len(bills) < MaxBills
  /\ IF ValidateWorkOrder(w, wo) /\ ValidateItems(items, woi, stock)
     THEN IF NumberIsFree(BillSave(w, bills, earlier).bill_number, bills, earlier)
          THEN LET r == CreateBill(w, items, stock, wo, woi, bills, earlier)
               IN /\ stock' = r.stock
                  /\ woi' = r.woi
                  /\ wo' = r.wo
                  /\ bills' = r.bills
                  /\ last' = Outcome("create", TRUE, Len(r.bills))
          ELSE /\ UNCHANGED <<stock, woi, wo, bills>>
               /\ last' = [Outcome("create", FALSE, NoBill) EXCEPT
                             !.why = {"integrity_error"}]
     ELSE /\ UNCHANGED <<stock, woi, wo, bills>>
          /\ last' = [Outcome("create", FALSE, NoBill) EXCEPT
                        !.why = CreateErrors(w, items, wo, woi, stock)]
  /\ UNCHANGED <<payments, po, poi, inflight, earlier>>

\* POST /api/bills served concurrently.  Neither the view nor
\* BillCreateSerializer.create opens a transaction, so each save() below is
\* committed on its own and is visible to the other requests at once; only
\* deduct_stock is atomic.
\* serializer.is_valid(): the checks, on the rows as they are now
BillCreateValidate(r, w, items) ==
  /\ inflight[r] = Idle
  /\ IF ValidateWorkOrder(w, wo) /\ ValidateItems(items, woi, stock)
     THEN /\ inflight' = [inflight EXCEPT ![r] =
                [pc |-> "validated", work_order |-> w, items |-> items]]
          /\ UNCHANGED last
     ELSE /\ inflight' = [inflight EXCEPT ![r] = Done]
          /\ last' = [Outcome("create", FALSE, NoBill) EXCEPT
                        !.why = CreateErrors(w, items, wo, woi, stock)]
  /\ UNCHANGED <<stock, wo, woi, bills, payments, po, poi, earlier>>

\* WorkOrder.objects.get and Bill.objects.create: the work order is read once
\* and kept by the request as bill.work_order; the Bill row is inserted with
\* all amounts 0
BillCreateInsert(r) ==
  /\ inflight[r].pc = "validated"
  /\ LET q == inflight[r]
         header == BillSave(q.work_order, bills, earlier)
     IN IF NumberIsFree(header.bill_number, bills, earlier)
        THEN /\ bills' = Append(bills, header)
             /\ inflight' = [inflight EXCEPT ![r] =
                   [pc |-> "items", work_order |-> q.work_order, items |-> q.items,
                    bill |-> Len(bills) + 1, k |-> 0,
                    row |-> header, worow |-> wo[q.work_order]]]
             /\ UNCHANGED last
        ELSE /\ inflight' = [inflight EXCEPT ![r] = Done]
             /\ last' = [Outcome("create", FALSE, NoBill) EXCEPT
                           !.why = {"integrity_error"}]
             /\ UNCHANGED bills
  /\ UNCHANGED <<stock, wo, woi, payments, po, poi, earlier>>

\* one pass of the loop of create: WorkOrderItem.objects.get and
\* BillItem.objects.create
BillCreateItem(r) ==
  /\ inflight[r].pc = "items"
  /\ inflight[r].k < Len(inflight[r].items)
  /\ LET q == inflight[r]
     IN /\ bills' = [bills EXCEPT ![q.bill].items =
                       Append(@, BillItemSave(q.items[q.k + 1], woi))]
        /\ inflight' = [inflight EXCEPT ![r].k = q.k + 1]
  /\ UNCHANGED <<stock, wo, woi, payments, po, poi, last, earlier>>

\* bill.calculate_totals(): the items are read from the database, the
\* advance from the work order the request holds; the request's Bill is saved
BillCreateTotals(r) ==
  /\ inflight[r].pc = "items"
  /\ inflight[r].k = Len(inflight[r].items)
  /\ LET q == inflight[r]
         saved == CalculateTotals([q.row EXCEPT !.items = bills[q.bill].items], q.worow)
     IN /\ bills' = [bills EXCEPT ![q.bill] = saved]
        /\ inflight' = [inflight EXCEPT ![r].pc = "advance", ![r].row = saved]
  /\ UNCHANGED <<stock, wo, woi, payments, po, poi, last, earlier>>

\* bill.update_work_order_advance(): the work order the request holds is
\* changed and saved, every field of it
BillCreateAdvance(r) ==
  /\ inflight[r].pc = "advance"
  /\ LET q == inflight[r]
         saved == UpdateWorkOrderAdvance(q.row, q.worow)
     IN /\ wo' = [wo EXCEPT ![q.work_order] = saved]
        /\ inflight' = [inflight EXCEPT ![r].pc = "stock", ![r].worow = saved]
  /\ UNCHANGED <<stock, woi, bills, payments, po, poi, last, earlier>>

\* bill.deduct_stock(), one transaction: the items, their products and work
\* order items are read from the database; update_status saves the work
\* order the request holds
BillCreateDeduct(r) ==
  /\ inflight[r].pc = "stock"
  /\ LET q == inflight[r]
         items == bills[q.bill].items
         db == DeductStock(items, Len(items), [stock |-> stock, woi |-> woi])
     IN /\ stock' = db.stock
        /\ woi' = db.woi
        /\ wo' = [wo EXCEPT ![q.work_order] = UpdateStatus(q.work_order, q.worow, db.woi)]
        /\ last' = Outcome("create", TRUE, q.bill)
  /\ inflight' = [inflight EXCEPT ![r] = Done]
  /\ UNCHANGED <<bills, payments, po, poi, earlier>>

\* ----------------------------------------------------- bill: cancellation
\* restore_stock giving the stock back without giving the delivered quantity
\* back
RestoreStockItem_StockOnly(bi, db) ==
  IF bi.product # NoProduct
  THEN [db EXCEPT !.stock = [db.stock EXCEPT ![bi.product] = @ + bi.delivered_quantity]]
  ELSE db

\* one pass of the loop of Bill.restore_stock
RestoreStockItem(bi, db) ==
  IF bi.product # NoProduct
  THEN [stock |-> [db.stock EXCEPT ![bi.product] = @ + bi.delivered_quantity],
        woi |-> [db.woi EXCEPT ![bi.work_order_item] =
                   WorkOrderItemSave(
                     [@ EXCEPT !.delivered_quantity = @ - bi.delivered_quantity])]]
  ELSE db

RECURSIVE RestoreStockItems(_, _, _)
RestoreStockItems(items, k, db) ==
  IF k = 0 THEN db ELSE RestoreStockItem(items[k], RestoreStockItems(items, k - 1, db))

\* restore_stock leaving the advance the bill consumed with the work order
RestoreWorkOrder_KeepAdvance(bill, worow) ==
  WorkOrderSave([worow EXCEPT !.total_delivered_value = @ - bill.total_amount])

\* the work order part of Bill.restore_stock
RestoreWorkOrder(bill, worow) ==
  WorkOrderSave([worow EXCEPT !.advance_deducted = @ - bill.advance_deducted,
                              !.total_delivered_value = @ - bill.total_amount])

\* Bill.restore_stock followed by the status change of BillViewSet.cancel
CancelBill(b, st, worows, wi, bs) ==
  LET bill == bs[b]
      w == bill.work_order
      db == RestoreStockItems(bill.items, Len(bill.items), [stock |-> st, woi |-> wi])
      wo1 == RestoreWorkOrder(bill, worows[w])
  IN [stock |-> db.stock,
      woi |-> db.woi,
      wo |-> [worows EXCEPT ![w] = UpdateStatus(w, wo1, db.woi)],
      bills |-> [bs EXCEPT ![b].status = "CANCELLED"]]

\* cancel guarding against a second cancellation only
CanCancel_NotCancelled(bill) == bill.status # "CANCELLED"

\* the guards of BillViewSet.cancel
CanCancel(bill) == bill.status # "CANCELLED" /\ bill.status # "PAID"

\* cancel taking the bill's payment rows away with it
BillCancel_DropsPayments(b) ==
  /\ b \in 1..Len(bills)
  /\ IF CanCancel(bills[b])
     THEN LET r == CancelBill(b, stock, wo, woi, bills)
          IN /\ stock' = r.stock
             /\ woi' = r.woi
             /\ wo' = r.wo
             /\ bills' = r.bills
             /\ payments' = SelectSeq(payments, LAMBDA x : x.bill # b)
             /\ last' = [Outcome("cancel", TRUE, b) EXCEPT
                           !.direct = (last.op = "create" /\ last.ok /\ last.bill = b)]
     ELSE /\ UNCHANGED <<stock, woi, wo, bills, payments>>
          /\ last' = Outcome("cancel", FALSE, b)
  /\ UNCHANGED <<po, poi, inflight, earlier>>

\* POST /api/bills/{id}/cancel
BillCancel(b) ==
  /\ b \in 1..Len(bills)
  /\ IF CanCancel(bills[b])
     THEN LET r == CancelBill(b, stock, wo, woi, bills)
          IN /\ stock' = r.stock
             /\ woi' = r.woi
             /\ wo' = r.wo
             /\ bills' = r.bills
             /\ last' = [Outcome("cancel", TRUE, b) EXCEPT
                           !.direct = (last.op = "create" /\ last.ok /\ last.bill = b)]
     ELSE /\ UNCHANGED <<stock, woi, wo, bills>>
          /\ last' = Outcome("cancel", FALSE, b)
  /\ UNCHANGED <<payments, po, poi, inflight, earlier>>

\* cancel served concurrently.  get_object loads the bill row, its work order
\* (select_related) and, through the prefetch of items__product, its items
\* and one instance of each of their products
BillCancelLoad(r, b) ==
  /\ inflight[r] = Idle
  /\ b \in 1..Len(bills)
  /\ inflight' = [inflight EXCEPT ![r] =
        [pc |-> "cancelling", bill |-> b, row |-> bills[b],
         stock |-> stock, worow |-> wo[bills[b].work_order]]]
  /\ UNCHANGED <<stock, wo, woi, bills, payments, po, poi, last, earlier>>

\* the rest of cancel on the loaded bill, one transaction: restore_stock
\* changes and saves the loaded products and the loaded work order, reads
\* each work order item (bill_item.work_order_item is not prefetched) and the
\* items update_status looks at from the database, and bill.save() writes the
\* loaded row
BillCancelFinish(r) ==
  /\ inflight[r].pc = "cancelling"
  /\ LET q == inflight[r]
         w == q.row.work_order
         touched == {q.row.items[k].product : k \in 1..Len(q.row.items)} \ {NoProduct}
         db == RestoreStockItems(q.row.items, Len(q.row.items),
                                 [stock |-> q.stock, woi |-> woi])
         wo1 == RestoreWorkOrder(q.row, q.worow)
     IN IF CanCancel(q.row)
        THEN /\ stock' = [p \in Products |-> IF p \in touched THEN db.stock[p] ELSE stock[p]]
             /\ woi' = db.woi
             /\ wo' = [wo EXCEPT ![w] = UpdateStatus(w, wo1, db.woi)]
             /\ bills' = [bills EXCEPT ![q.bill] = [q.row EXCEPT !.status = "CANCELLED"]]
             /\ last' = Outcome("cancel", TRUE, q.bill)
        ELSE /\ UNCHANGED <<stock, woi, wo, bills>>
             /\ last' = Outcome("cancel", FALSE, q.bill)
  /\ inflight' = [inflight EXCEPT ![r] = Done]
  /\ UNCHANGED <<payments, po, poi, earlier>>

\* ---------------------------------------------------------- payment ledger
PaymentsOf(b, ps) == {k \in 1..Len(ps) : ps[k].bill = b}

\* datetime.strptime(raw_date, '%Y-%m-%d') succeeds: four digits of year, a
\* month and a day of the month
ParsesAsDate(raw_date) ==
  /\ Len(raw_date) = 3
  /\ raw_date[1] \in 1000..9999
  /\ raw_date[2] \in 1..12
  /\ raw_date[3] \in 1..31

\* mark_paid without the ceiling of the outstanding balance
MarkPaidAccepts_NoCeiling(bill, amount_paid_now, payment_mode, raw_date) ==
  /\ bill.status # "CANCELLED"
  /\ bill.status # "PAID"
  /\ ~(amount_paid_now <= 0)
  /\ raw_date # <<>> => ParsesAsDate(raw_date)
  /\ payment_mode \in PAYMENT_MODE_CHOICES

\* the guard rails and the amount, date and mode checks of
\* BillViewSet.mark_paid
MarkPaidAccepts(bill, amount_paid_now, payment_mode, raw_date) ==
  /\ bill.status # "CANCELLED"
  /\ bill.status # "PAID"
  /\ ~(amount_paid_now <= 0)
  /\ ~(amount_paid_now > bill.net_payable - bill.amount_paid)
  /\ raw_date # <<>> => ParsesAsDate(raw_date)
  /\ payment_mode \in PAYMENT_MODE_CHOICES

\* mark_paid replacing the amount paid instead of accumulating it
MarkPaidBill_Replace(bill, amount_paid_now) ==
  LET raw == bill.net_payable - amount_paid_now
      balance == IF raw < 0 THEN 0 ELSE raw
  IN [bill EXCEPT !.amount_paid = amount_paid_now,
                  !.balance = balance,
                  !.status = IF balance = 0 THEN "PAID" ELSE bill.status]

\* "Apply payment" of BillViewSet.mark_paid: the bill row that is saved
MarkPaidBill(bill, amount_paid_now) ==
  LET amount_paid == bill.amount_paid + amount_paid_now
      raw == bill.net_payable - amount_paid
      balance == IF raw < 0 THEN 0 ELSE raw
  IN [bill EXCEPT !.amount_paid = amount_paid,
                  !.balance = balance,
                  !.status = IF balance = 0 THEN "PAID" ELSE bill.status]

\* "Create payment history row" of BillViewSet.mark_paid; count is
\* bill.payments.count() as the request sees it
MarkPaidPayment(b, saved, amount_paid_now, payment_mode, raw_date, count) ==
  [bill |-> b,
   payment_number |-> count + 1,
   amount |-> amount_paid_now,
   payment_date |-> raw_date,
   payment_mode |-> payment_mode,
   total_paid_after |-> saved.amount_paid,
   balance_after |-> saved.balance]

\* POST /api/bills/{id}/mark_paid, served alone
MarkPaid(b, amount_paid_now, payment_mode, raw_date) ==
  /\ b \in 1..Len(bills)
  /\ IF MarkPaidAccepts(bills[b], amount_paid_now, payment_mode, raw_date)
     THEN LET saved == MarkPaidBill(bills[b], amount_paid_now)
              count == Cardinality(PaymentsOf(b, payments))
          IN /\ bills' = [bills EXCEPT ![b] = saved]
             /\ payments' = Append(payments,
                  MarkPaidPayment(b, saved, amount_paid_now, payment_mode, raw_date,
                                  count))
             /\ last' = Outcome("mark_paid", TRUE, b)
     ELSE /\ UNCHANGED <<bills, payments>>
          /\ last' = Outcome("mark_paid", FALSE, b)
  /\ UNCHANGED <<stock, wo, woi, po, poi, inflight, earlier>>

\* mark_paid served concurrently, each request of Requests once.  get_object
\* loads the bill row and, through the queryset's prefetch of payments, the
\* payment rows: bill.payments.count() later counts the rows loaded here
MarkPaidLoad(r, b, amount_paid_now, payment_mode, raw_date) ==
  /\ inflight[r] = Idle
  /\ b \in 1..Len(bills)
  /\ inflight' = [inflight EXCEPT ![r] =
        [pc |-> "loaded", bill |-> b, row |-> bills[b],
         count |-> Cardinality(PaymentsOf(b, payments)),
         amount |-> amount_paid_now, mode |-> payment_mode, date |-> raw_date]]
  /\ UNCHANGED <<stock, wo, woi, bills, payments, po, poi, last, earlier>>

\* the rest of mark_paid on the loaded bill: the checks, bill.save() of the
\* whole row, the new BillPayment, committed together
MarkPaidFinish(r) ==
  /\ inflight[r] \notin {Idle, Done}
  /\ LET q == inflight[r]
     IN IF MarkPaidAccepts(q.row, q.amount, q.mode, q.date)
        THEN LET saved == MarkPaidBill(q.row, q.amount)
             IN /\ bills' = [bills EXCEPT ![q.bill] = saved]
                /\ payments' = Append(payments,
                     MarkPaidPayment(q.bill, saved, q.amount, q.mode, q.date, q.count))
                /\ last' = Outcome("mark_paid", TRUE, q.bill)
        ELSE /\ UNCHANGED <<bills, payments>>
             /\ last' = Outcome("mark_paid", FALSE, q.bill)
  /\ inflight' = [inflight EXCEPT ![r] = Done]
  /\ UNCHANGED <<stock, wo, woi, po, poi, earlier>>

\* PUT or PATCH /api/bills/{id} with an amount_paid: BillSerializer leaves
\* amount_paid writable, and Bill.save recomputes nothing
BillUpdate(b, amount_paid) ==
  /\ b \in 1..Len(bills)
  /\ bills' = [bills EXCEPT ![b].amount_paid = amount_paid]
  /\ last' = Outcome("update", TRUE, b)
  /\ UNCHANGED <<stock, wo, woi, payments, po, poi, inflight, earlier>>

\* ------------------------------------------------------------ work order
\* POST /api/work-orders/{id}/update_advance
UpdateAdvance(w, advance_amount) ==
  /\ wo' = [wo EXCEPT ![w] = WorkOrderSave([@ EXCEPT !.advance_amount = advance_amount])]
  /\ last' = Outcome("update_advance", TRUE, NoBill)
  /\ UNCHANGED <<stock, woi, bills, payments, po, poi, inflight, earlier>>

\* PATCH /api/work-orders/{id} with a status: WorkOrderSerializer leaves
\* status writable, and the viewset names this as the way to cancel
WorkOrderUpdate(w, status) ==
  /\ wo' = [wo EXCEPT ![w] = WorkOrderSave([@ EXCEPT !.status = status])]
  /\ last' = Outcome("wo_update", TRUE, NoBill)
  /\ UNCHANGED <<stock, woi, bills, payments, po, poi, inflight, earlier>>

\* --------------------------------------------------------- purchase order
PoItemsOf(o, rows) == {q \in PurchaseOrderItems : rows[q].po = o}

\* PurchaseOrder.update_status; `seen` are the items as self.items.all()
\* returns them: the view's queryset prefetches items__product, so they are
\* the rows read when the request loaded the purchase order
PurchaseOrderUpdateStatus(o, row, seen) ==
  IF row.status = "CANCELLED" THEN row
  ELSE LET items == PoItemsOf(o, seen)
       IN [row EXCEPT !.status =
             IF \A q \in items : seen[q].is_received THEN "COMPLETED"
             ELSE IF \E q \in items : seen[q].is_received THEN "PARTIALLY_RECEIVED"
             ELSE "PENDING"]

\* mark_as_purchased marking the item received without adding to the stock
MarkAsPurchased_FlagOnly(q, db, seen) ==
  IF ~db.poi[q].is_received
  THEN LET o == db.poi[q].po
       IN [stock |-> db.stock,
           poi |-> [db.poi EXCEPT ![q].is_received = TRUE],
           po |-> [db.po EXCEPT ![o] = PurchaseOrderUpdateStatus(o, @, seen)]]
  ELSE db

\* PurchaseOrderItem.mark_as_purchased on a purchase order that is not
\* cancelled, on the triple (stock, poi, po)
MarkAsPurchased(q, db, seen) ==
  IF ~db.poi[q].is_received
  THEN LET o == db.poi[q].po
       IN [stock |-> [db.stock EXCEPT ![db.poi[q].product] = @ + db.poi[q].quantity],
           poi |-> [db.poi EXCEPT ![q].is_received = TRUE],
           po |-> [db.po EXCEPT ![o] = PurchaseOrderUpdateStatus(o, @, seen)]]
  ELSE db

\* POST /api/purchase-orders/{id}/mark_item_purchased
MarkItemPurchased(o, q) ==
  /\ IF poi[q].po = o /\ ~poi[q].is_received /\ po[o].status # "CANCELLED"
     THEN LET r == MarkAsPurchased(q, [stock |-> stock, poi |-> poi, po |-> po], poi)
          IN /\ stock' = r.stock
             /\ poi' = r.poi
             /\ po' = r.po
             /\ last' = Outcome("receive", TRUE, NoBill)
     ELSE /\ UNCHANGED <<stock, poi, po>>
          /\ last' = Outcome("receive", FALSE, NoBill)
  /\ UNCHANGED <<wo, woi, bills, payments, inflight, earlier>>

RECURSIVE MarkAllItems(_, _, _)
MarkAllItems(S, db, seen) ==
  IF S = {} THEN db
  ELSE LET q == CHOOSE x \in S : TRUE
       IN MarkAllItems(S \ {q}, MarkAsPurchased(q, db, seen), seen)

\* POST /api/purchase-orders/{id}/mark_all_purchased
MarkAllPurchased(o) ==
  /\ IF po[o].status # "CANCELLED"
     THEN LET r == MarkAllItems({q \in PoItemsOf(o, poi) : ~poi[q].is_received},
                                [stock |-> stock, poi |-> poi, po |-> po], poi)
          IN /\ stock' = r.stock
             /\ poi' = r.poi
             /\ po' = r.po
             /\ last' = Outcome("receive_all", TRUE, NoBill)
     ELSE /\ UNCHANGED <<stock, poi, po>>
          /\ last' = Outcome("receive_all", FALSE, NoBill)
  /\ UNCHANGED <<wo, woi, bills, payments, inflight, earlier>>

\* cancel guarding against a second cancellation only
PoCanCancel_OnlyCancelled(row) == row.status # "CANCELLED"

\* the guards of PurchaseOrder.cancel
PoCanCancel(row) == row.status # "CANCELLED" /\ row.status # "COMPLETED"

\* cancel taking back the quantity of every item, received or not
PoCancelItem_AllItems(q, db) ==
  [stock |-> [db.stock EXCEPT ![db.poi[q].product] = @ - db.poi[q].quantity],
   poi |-> [db.poi EXCEPT ![q].is_received = FALSE]]

\* one pass of the loop of PurchaseOrder.cancel, on the pair (stock, poi)
PoCancelItem(q, db) ==
  IF db.poi[q].is_received
  THEN [stock |-> [db.stock EXCEPT ![db.poi[q].product] = @ - db.poi[q].quantity],
        poi |-> [db.poi EXCEPT ![q].is_received = FALSE]]
  ELSE db

RECURSIVE PoCancelItems(_, _)
PoCancelItems(S, db) ==
  IF S = {} THEN db
  ELSE LET q == CHOOSE x \in S : TRUE
       IN PoCancelItems(S \ {q}, PoCancelItem(q, db))

\* POST /api/purchase-orders/{id}/cancel; the answer names the items whose
\* stock was reversed (reversed_items)
PurchaseOrderCancel(o) ==
  /\ IF PoCanCancel(po[o])
     THEN LET r == PoCancelItems(PoItemsOf(o, poi), [stock |-> stock, poi |-> poi])
          IN /\ stock' = r.stock
             /\ poi' = r.poi
             /\ po' = [po EXCEPT ![o].status = "CANCELLED"]
             /\ last' = [Outcome("po_cancel", TRUE, NoBill) EXCEPT
                           !.why = {q \in PoItemsOf(o, poi) : poi[q].is_received}]
     ELSE /\ UNCHANGED <<stock, poi, po>>
          /\ last' = Outcome("po_cancel", FALSE, NoBill)
  /\ UNCHANGED <<wo, woi, bills, payments, inflight, earlier>>

\* PATCH /api/purchase-orders/{id} with a status: PurchaseOrderSerializer
\* leaves status writable
PurchaseOrderUpdate(o, status) ==
  /\ po' = [po EXCEPT ![o].status = status]
  /\ last' = Outcome("po_update", TRUE, NoBill)
  /\ UNCHANGED <<stock, wo, woi, bills, payments, poi, inflight, earlier>>

\* ----------------------------------------------------------- specification
Init ==
  /\ stock = InitStock
  /\ wo = InitWorkOrder
  /\ woi = InitWorkOrderItem
  /\ bills = <<>>
  /\ payments = <<>>
  /\ po = InitPurchaseOrder
  /\ poi = InitPurchaseOrderItem
  /\ inflight = [r \in Requests |-> Idle]
  /\ last = NoRequest
  /\ earlier = 0

ItemLists == {<<>>} \cup SeqsUpTo(ItemInputs, MaxItems)

DoBillCreate == \E w \in WorkOrders, items \in ItemLists : BillCreate(w, items)
DoBillCancel == \E b \in 1..MaxBills : BillCancel(b)
DoMarkPaid ==
  \E b \in 1..MaxBills, a \in PayAmounts, m \in PayModes, d \in PayDates :
    MarkPaid(b, a, m, d)
DoMarkPaidLoad ==
  \E r \in Requests, b \in 1..MaxBills, a \in PayAmounts, m \in PayModes, d \in PayDates :
    MarkPaidLoad(r, b, a, m, d)
DoMarkPaidFinish == \E r \in Requests : MarkPaidFinish(r)
DoUpdateAdvance == \E w \in WorkOrders, a \in AdvanceAmounts : UpdateAdvance(w, a)
DoMarkItemPurchased == \E o \in PurchaseOrders, q \in PurchaseOrderItems : MarkItemPurchased(o, q)
DoMarkAllPurchased == \E o \in PurchaseOrders : MarkAllPurchased(o)
DoPurchaseOrderCancel == \E o \in PurchaseOrders : PurchaseOrderCancel(o)

Next ==
  \/ DoBillCreate
  \/ DoBillCancel
  \/ DoMarkPaid
  \/ DoUpdateAdvance
  \/ DoMarkItemPurchased
  \/ DoMarkAllPurchased
  \/ DoPurchaseOrderCancel

Spec == Init /\ [][Next]_vars

\* bill creation and cancellation only
NextBilling ==
  \/ DoBillCreate
  \/ DoBillCancel

SpecBilling == Init /\ [][NextBilling]_vars

\* bill creation and cancellation, purchase-order receipt and cancellation
NextStock ==
  \/ DoBillCreate
  \/ DoBillCancel
  \/ DoMarkItemPurchased
  \/ DoMarkAllPurchased
  \/ DoPurchaseOrderCancel

SpecStock == Init /\ [][NextStock]_vars

\* bill creation, payment and cancellation
NextPayments ==
  \/ DoBillCreate
  \/ DoMarkPaid
  \/ DoBillCancel

SpecPayments == Init /\ [][NextPayments]_vars

\* bill creation and cancellation, update of the advance
NextAdvance ==
  \/ DoBillCreate
  \/ DoBillCancel
  \/ DoUpdateAdvance

SpecAdvance == Init /\ [][NextAdvance]_vars

\* bill creation, and mark_paid requests that overlap
DoBillCreateFew == Len(bills) < MaxBillsInterleaved /\ DoBillCreate

NextConcurrent ==
  \/ DoBillCreateFew
  \/ DoMarkPaidLoad
  \/ DoMarkPaidFinish

SpecConcurrent == Init /\ [][NextConcurrent]_vars

\* the payment ledger of a bill: creation, payment and cancellation
NextLedger ==
  \/ DoBillCreateFew
  \/ DoMarkPaid
  \/ DoBillCancel

SpecLedger == Init /\ [][NextLedger]_vars

\* bill creation and cancellation, status update of the work order
DoWorkOrderUpdate ==
  \E w \in WorkOrders, st \in WorkOrderStatusUpdates : WorkOrderUpdate(w, st)

NextWorkOrder ==
  \/ DoBillCreate
  \/ DoBillCancel
  \/ DoWorkOrderUpdate

SpecWorkOrder == Init /\ [][NextWorkOrder]_vars

\* bill creation, payment, cancellation and update
DoBillUpdate == \E b \in 1..MaxBills, a \in BillUpdateAmounts : BillUpdate(b, a)

DoMarkPaidFew == Len(payments) < MaxPayments /\ DoMarkPaid

NextBillUpdate ==
  \/ DoBillCreateFew
  \/ DoMarkPaidFew
  \/ DoBillCancel
  \/ DoBillUpdate

SpecBillUpdate == Init /\ [][NextBillUpdate]_vars

\* bill creation, purchase-order receipt, cancellation and status update
DoPurchaseOrderUpdate ==
  \E o \in PurchaseOrders, st \in PurchaseOrderStatusUpdates : PurchaseOrderUpdate(o, st)

NextPurchase ==
  \/ DoBillCreate
  \/ DoMarkItemPurchased
  \/ DoMarkAllPurchased
  \/ DoPurchaseOrderCancel
  \/ DoPurchaseOrderUpdate

SpecPurchase == Init /\ [][NextPurchase]_vars

\* bill creation and cancellation, and the stock check before a bill
DoValidateStock == \E w \in WorkOrders, items \in ItemLists : ValidateStock(w, items)

NextValidate ==
  \/ DoBillCreate
  \/ DoBillCancel
  \/ DoValidateStock

SpecValidate == Init /\ [][NextValidate]_vars

\* the same requests as NextStock, on a work order with two items: the manual
\* item i2 is an item of w1
InitTwoItemOrder ==
  /\ stock = InitStock
  /\ wo = InitWorkOrder
  /\ woi = [InitWorkOrderItem EXCEPT !["i2"].work_order = "w1"]
  /\ bills = <<>>
  /\ payments = <<>>
  /\ po = InitPurchaseOrder
  /\ poi = InitPurchaseOrderItem
  /\ inflight = [r \in Requests |-> Idle]
  /\ last = NoRequest
  /\ earlier = 0

SpecTwoItemOrder == InitTwoItemOrder /\ [][NextStock]_vars

\* bill creation and cancellation late in a year of many bills
InitNumbering ==
  /\ stock = InitStock
  /\ wo = InitWorkOrder
  /\ woi = InitWorkOrderItem
  /\ bills = <<>>
  /\ payments = <<>>
  /\ po = InitPurchaseOrder
  /\ poi = InitPurchaseOrderItem
  /\ inflight = [r \in Requests |-> Idle]
  /\ last = NoRequest
  /\ earlier \in EarlierBills

SpecNumbering == InitNumbering /\ [][NextBilling]_vars

\* bill creation, and cancel requests that overlap
DoBillCancelLoad == \E r \in Cancellers, b \in 1..MaxBills : BillCancelLoad(r, b)
DoBillCancelFinish == \E r \in Cancellers : BillCancelFinish(r)

NextCancelRace ==
  \/ DoBillCreateFew
  \/ DoBillCancelLoad
  \/ DoBillCancelFinish

SpecCancelRace == Init /\ [][NextCancelRace]_vars

\* bill creations that overlap
DoBillCreateValidate ==
  \E r \in Creators, w \in WorkOrders, items \in ItemLists : BillCreateValidate(r, w, items)
DoBillCreateInsert == \E r \in Creators : BillCreateInsert(r)
DoBillCreateItem == \E r \in Creators : BillCreateItem(r)
DoBillCreateTotals == \E r \in Creators : BillCreateTotals(r)
DoBillCreateAdvance == \E r \in Creators : BillCreateAdvance(r)
DoBillCreateDeduct == \E r \in Creators : BillCreateDeduct(r)

NextCreateSteps ==
  \/ DoBillCreateValidate
  \/ DoBillCreateInsert
  \/ DoBillCreateItem
  \/ DoBillCreateTotals
  \/ DoBillCreateAdvance
  \/ DoBillCreateDeduct

SpecCreateSteps == Init /\ [][NextCreateSteps]_vars

\* ================================================================== claims
BillIds == 1..Len(bills)

RECURSIVE SumOver(_, _)
SumOver(S, f) ==
  IF S = {} THEN 0
  ELSE LET x == CHOOSE y \in S : TRUE IN f[x] + SumOver(S \ {x}, f)

\* C1: after any sequence of bill creations and cancellations every
\* WorkOrderItem has 0 <= delivered_quantity <= ordered_quantity.
C1_DeliveredWithinOrdered ==
  \A i \in WorkOrderItems :
    /\ 0 <= woi[i].delivered_quantity
    /\ woi[i].delivered_quantity <= woi[i].ordered_quantity

\* C2: starting from non-negative stock, after any sequence of bill creation,
\* bill cancellation, purchase-order receipt and purchase-order cancellation
\* served one at a time, every Product.current_stock is >= 0.
C2_StockNonNegative == \A p \in Products : stock[p] >= 0

\* C3: creating a bill and then cancelling that same bill restores the stock
\* of every product and the delivered and pending quantity of every work order
\* item to their values before the bill was created: in every step that
\* creates a bill, the bill can be cancelled, and cancelling it in the state
\* reached gives back the values of the state left.
C3_CreateThenCancelRestores ==
  [][(last'.op = "create" /\ last'.ok) =>
       LET b == Len(bills')
           r == CancelBill(b, stock', wo', woi', bills')
       IN /\ CanCancel(bills'[b])
          /\ r.stock = stock
          /\ \A i \in WorkOrderItems :
               /\ r.woi[i].delivered_quantity = woi[i].delivered_quantity
               /\ r.woi[i].pending_quantity = woi[i].pending_quantity]_vars

\* a bill that delivered a product was created and cancelled at once
C3_Witness ==
  /\ last.op = "cancel" /\ last.ok /\ last.direct
  /\ \E k \in 1..Len(bills[last.bill].items) :
       /\ bills[last.bill].items[k].product # NoProduct
       /\ bills[last.bill].items[k].delivered_quantity > 0

\* C4: after any sequence of mark_paid calls served one at a time, the amounts
\* of a bill's payments add up to its amount_paid, and its payment with the
\* highest payment_number carries the bill's amount_paid and balance.
C4_LedgerReproducesAggregate ==
  \A b \in BillIds :
    LET mine == PaymentsOf(b, payments)
    IN /\ SumOver(mine, [k \in mine |-> payments[k].amount]) = bills[b].amount_paid
       /\ \A k \in mine :
            (\A j \in mine : payments[j].payment_number <= payments[k].payment_number)
              => /\ payments[k].total_paid_after = bills[b].amount_paid
                 /\ payments[k].balance_after = bills[b].balance

\* a bill paid in two instalments
C4_Witness ==
  \E b \in BillIds :
    /\ Cardinality(PaymentsOf(b, payments)) = 2
    /\ bills[b].amount_paid = 118

\* C5: the payment numbers of a bill are exactly 1..n, without gap or repeat,
\* for any interleaving of concurrent mark_paid calls on the bill.
C5_PaymentNumbersAreOneToN ==
  \A b \in BillIds :
    LET mine == PaymentsOf(b, payments)
    IN /\ {payments[k].payment_number : k \in mine} = 1..Cardinality(mine)
       /\ \A j, k \in mine :
            payments[j].payment_number = payments[k].payment_number => j = k

\* C6: a bill that is not cancelled and whose balance is exactly 0 has status
\* PAID, and every mark_paid call on it is rejected.
C6_ZeroBalanceIsPaid ==
  \A b \in BillIds :
    (bills[b].status # "CANCELLED" /\ bills[b].balance = 0)
      => /\ bills[b].status = "PAID"
         /\ \A a \in PayAmounts, m \in PayModes, d \in PayDates :
              ~MarkPaidAccepts(bills[b], a, m, d)

\* C7: in every state reached by bill creation, mark_paid and bill
\* cancellation, the balance of every bill is >= 0.
C7_BalanceNonNegative == \A b \in BillIds : bills[b].balance >= 0

\* a bill with an outstanding balance after a part payment, and a bill paid off
C7_Witness ==
  /\ \E b \in BillIds : bills[b].amount_paid > 0 /\ bills[b].balance > 0
  /\ \E b \in BillIds : bills[b].status = "PAID" /\ bills[b].balance = 0

\* C8: after any sequence of bill creations and cancellations, the
\* advance_deducted of a work order is the sum of the advance_deducted of its
\* bills that are not cancelled.
C8_AdvanceDeductedIsSumOfBills ==
  \A w \in WorkOrders :
    LET live == {b \in BillIds : bills[b].work_order = w /\ bills[b].status # "CANCELLED"}
    IN wo[w].advance_deducted = SumOver(live, [b \in live |-> bills[b].advance_deducted])

\* a work order with a live bill that consumed advance and a cancelled one
C8_Witness ==
  \E w \in WorkOrders, b, c \in BillIds :
    /\ bills[b].work_order = w /\ bills[c].work_order = w
    /\ bills[b].status = "GENERATED" /\ bills[b].advance_deducted > 0
    /\ bills[c].status = "CANCELLED" /\ bills[c].advance_deducted > 0

\* C9: after any sequence of bill creation, bill cancellation and
\* update_advance, the advance_remaining of every work order is >= 0.
C9_AdvanceRemainingNonNegative == \A w \in WorkOrders : wo[w].advance_remaining >= 0

\* some item of the request asks for more than is pending or than is in stock
Exceeds(items) ==
  \E k \in 1..Len(items) :
    LET wo_item == woi[items[k].work_order_item]
    IN \/ items[k].delivered_quantity > wo_item.pending_quantity
       \/ /\ wo_item.product # NoProduct
          /\ items[k].delivered_quantity > stock[wo_item.product]

\* C10: a bill-creation request in which some item's delivered_quantity
\* exceeds the pending quantity of its work order item, or the stock of its
\* product, is rejected, and the rejection creates no bill and changes no
\* product, work order item or work order.
C10_ExcessIsRejectedWithoutEffect ==
  [][\A w \in WorkOrders, items \in ItemLists :
       (Exceeds(items) /\ BillCreate(w, items)) =>
          /\ ~last'.ok
          /\ UNCHANGED <<stock, wo, woi, bills, payments>>]_vars

\* a request was rejected because an item exceeded the pending quantity or
\* the stock
C10_Witness ==
  /\ last.op = "create" /\ ~last.ok
  /\ last.why \cap {"exceeds_pending", "insufficient_stock"} # {}

\* what a bill delivered of work order item i (manual items are not counted
\* by deduct_stock)
DeliveredInBill(bill, i) ==
  SumSeq([k \in 1..Len(bill.items) |->
            IF bill.items[k].work_order_item = i /\ bill.items[k].product # NoProduct
            THEN bill.items[k].delivered_quantity ELSE 0], Len(bill.items))

\* what a bill took of product p
TakenByBill(bill, p) ==
  SumSeq([k \in 1..Len(bill.items) |->
            IF bill.items[k].product = p THEN bill.items[k].delivered_quantity ELSE 0],
         Len(bill.items))

LiveBills == {b \in BillIds : bills[b].status # "CANCELLED"}

\* C11: bill creation is one atomic unit: in no state that another request can
\* read, or that a failure can leave, does a Bill row exist whose items,
\* totals, work order advance, stock deduction or delivered quantities are
\* not all applied.
C11_BillCreationIsAtomic ==
  /\ \A b \in BillIds :
       /\ Len(bills[b].items) > 0
       /\ bills[b].subtotal =
            SumSeq([k \in 1..Len(bills[b].items) |-> bills[b].items[k].amount],
                   Len(bills[b].items))
  /\ \A w \in WorkOrders :
       LET mine == {b \in LiveBills : bills[b].work_order = w}
       IN /\ wo[w].advance_deducted =
               SumOver(mine, [b \in mine |-> bills[b].advance_deducted])
          /\ wo[w].total_delivered_value =
               SumOver(mine, [b \in mine |-> bills[b].total_amount])
  /\ \A i \in WorkOrderItems :
       woi[i].delivered_quantity =
         InitWorkOrderItem[i].delivered_quantity
           + SumOver(LiveBills, [b \in LiveBills |-> DeliveredInBill(bills[b], i)])
  /\ \A p \in Products :
       stock[p] =
         InitStock[p] - SumOver(LiveBills, [b \in LiveBills |-> TakenByBill(bills[b], p)])

\* a bill that one request alone could never overdraw with: every quantity is
\* positive and no work order item is named twice
PlainBill(bill) ==
  /\ \A k \in 1..Len(bill.items) : bill.items[k].delivered_quantity > 0
  /\ \A j, k \in 1..Len(bill.items) :
       bill.items[j].work_order_item = bill.items[k].work_order_item => j = k

\* C19: for any interleaving of two concurrent bill creations that deliver the
\* same product, the product's current_stock never becomes negative.
C19_StockNonNegativeUnderRace ==
  (\A b \in BillIds : PlainBill(bills[b])) => \A p \in Products : stock[p] >= 0

\* C12: once the status of a work order is CANCELLED, no bill creation and no
\* bill cancellation changes it.
C12_CancelledWorkOrderStays ==
  [][last'.op \in {"create", "cancel"} =>
       \A w \in WorkOrders :
         wo[w].status = "CANCELLED" => wo'[w].status = "CANCELLED"]_vars

\* C13: under bill creation, mark_paid and cancel a bill's status changes only
\* from GENERATED to PAID, by mark_paid, or from GENERATED to CANCELLED, by
\* cancel; and cancel on a PAID or CANCELLED bill is rejected and changes no
\* stock, work order item, work order or bill.
C13_BillStatusTransitions ==
  [][/\ Len(bills') > Len(bills) => bills'[Len(bills')].status = "GENERATED"
     /\ \A b \in BillIds :
          /\ bills'[b].status # bills[b].status =>
                /\ bills[b].status = "GENERATED"
                /\ \/ bills'[b].status = "PAID" /\ last'.op = "mark_paid"
                   \/ bills'[b].status = "CANCELLED" /\ last'.op = "cancel"
          /\ (last'.op = "cancel" /\ bills[b].status \in {"PAID", "CANCELLED"}
                 /\ BillCancel(b)) =>
                /\ ~last'.ok
                /\ UNCHANGED <<stock, woi, wo, bills>>]_vars

\* the cancellation of a paid bill was rejected
C13_Witness ==
  /\ last.op = "cancel" /\ ~last.ok
  /\ bills[last.bill].status = "PAID"

\* C14: mark_paid succeeds exactly when the bill is neither CANCELLED nor PAID
\* and 0 < amount_paid_now <= net_payable - amount_paid, with a valid mode and
\* date; a rejected call leaves the bill's amount_paid, balance and status as
\* they were and adds no payment row.
C14_MarkPaidSucceedsExactlyWhen ==
  [][\A b \in BillIds, a \in PayAmounts, m \in PayModes, d \in PayDates :
       (last'.op = "mark_paid" /\ last'.bill = b /\ MarkPaid(b, a, m, d)) =>
         LET due == bills[b].net_payable - bills[b].amount_paid
             should == /\ bills[b].status \notin {"CANCELLED", "PAID"}
                       /\ 0 < a /\ a <= due
                       /\ m \in PAYMENT_MODE_CHOICES
                       /\ (d = <<>> \/ ParsesAsDate(d))
         IN /\ last'.ok <=> should
            /\ last'.ok =>
                  /\ Len(payments') = Len(payments) + 1
                  /\ bills'[b].amount_paid = bills[b].amount_paid + a
            /\ ~last'.ok =>
                  /\ bills'[b].amount_paid = bills[b].amount_paid
                  /\ bills'[b].balance = bills[b].balance
                  /\ bills'[b].status = bills[b].status
                  /\ payments' = payments]_vars

\* a payment on a part-paid bill was rejected
C14_Witness ==
  /\ last.op = "mark_paid" /\ ~last.ok
  /\ bills[last.bill].status = "GENERATED"
  /\ bills[last.bill].amount_paid > 0
  /\ bills[last.bill].balance > 0

C16_OnlyMarkPaidChangesAmountPaid ==
  [][last'.op # "mark_paid" =>
       \A b \in BillIds : bills'[b].amount_paid = bills[b].amount_paid]_vars

\* what the payment rows of bill b add up to
LedgerTotal(b) ==
  LET mine == PaymentsOf(b, payments)
  IN SumOver(mine, [k \in mine |-> payments[k].amount])

\* C17: for any interleaving of concurrent mark_paid calls on a bill, the
\* amounts of its payment rows never add up to more than its net_payable.
C17_LedgerWithinNetPayable ==
  \A b \in BillIds : LedgerTotal(b) <= bills[b].net_payable

\* C18: for any interleaving of concurrent mark_paid calls on a bill, once all
\* calls have finished the bill's amount_paid is the sum of the amounts of its
\* payment rows.
C18_NoPaymentLost ==
  (\A r \in Requests : inflight[r] \in {Idle, Done}) =>
    \A b \in BillIds : bills[b].amount_paid = LedgerTotal(b)

\* C20: cancelling a purchase order whose status is CANCELLED or COMPLETED is
\* rejected and changes no stock, no is_received flag and no purchase order.
C20_ClosedPurchaseOrderCancelRejected ==
  [][\A o \in PurchaseOrders :
       (PurchaseOrderCancel(o) /\ po[o].status \in {"CANCELLED", "COMPLETED"}) =>
          /\ ~last'.ok
          /\ UNCHANGED <<stock, poi, po>>]_vars

\* the cancellation of a completed purchase order with a received item was
\* rejected
C20_Witness ==
  /\ last.op = "po_cancel" /\ ~last.ok
  /\ \E o \in PurchaseOrders :
       /\ po[o].status = "COMPLETED"
       /\ \E q \in PoItemsOf(o, poi) : poi[q].is_received

\* what purchase order o has received of product p
ReceivedOf(o, p, rows) ==
  LET mine == {q \in PoItemsOf(o, rows) : rows[q].is_received /\ rows[q].product = p}
  IN SumOver(mine, [q \in mine |-> rows[q].quantity])

\* C21: cancelling a PENDING or PARTIALLY_RECEIVED purchase order is accepted,
\* takes from each product exactly the quantity of the order's received items,
\* leaves no item of the order received and sets its status to CANCELLED; so a
\* receipt on an order without received items, followed by the cancellation
\* of the order, gives every product the stock it had before the receipt.
C21_CancelReversesReceipts ==
  [][\A o \in PurchaseOrders :
       /\ (po[o].status \in {"PENDING", "PARTIALLY_RECEIVED"} /\ PurchaseOrderCancel(o)) =>
            /\ last'.ok
            /\ \A p \in Products : stock'[p] = stock[p] - ReceivedOf(o, p, poi)
            /\ \A q \in PoItemsOf(o, poi) : ~poi'[q].is_received
            /\ po'[o].status = "CANCELLED"
       /\ (/\ last'.op \in {"receive", "receive_all"} /\ last'.ok
           /\ \A q \in PoItemsOf(o, poi) : ~poi[q].is_received
           /\ po'[o].status \in {"PENDING", "PARTIALLY_RECEIVED"}) =>
            PoCancelItems(PoItemsOf(o, poi'), [stock |-> stock', poi |-> poi']).stock
              = stock]_vars

\* the cancellation of a purchase order reversed the receipt of an item
C21_Witness ==
  /\ last.op = "po_cancel" /\ last.ok
  /\ last.why # {}
  /\ \A q \in PurchaseOrderItems : ~poi[q].is_received

\* what the items of a bill that reference work order item i deliver
RecordedInBill(bill, i) ==
  SumSeq([k \in 1..Len(bill.items) |->
            IF bill.items[k].work_order_item = i
            THEN bill.items[k].delivered_quantity ELSE 0], Len(bill.items))

\* C22: in every reachable state the delivered_quantity of each work order
\* item, product-linked or manual, is the sum of the delivered_quantity of the
\* bill items that reference it in bills that are not cancelled.
C22_DeliveredIsSumOfBillItems ==
  \A i \in WorkOrderItems :
    woi[i].delivered_quantity =
      SumOver(LiveBills, [b \in LiveBills |-> RecordedInBill(bills[b], i)])

\* C23: validate_stock is a dry run of the preconditions of bill creation: for
\* every work order and item list it reports stock_available true exactly when
\* bill creation with the same input passes validate_work_order and
\* validate_items, and it changes nothing.
C23_ValidateStockIsDryRun ==
  [][\A w \in WorkOrders, items \in ItemLists :
       (last'.op = "validate_stock" /\ ValidateStock(w, items)) =>
          /\ last'.ok <=> (ValidateWorkOrder(w, wo) /\ ValidateItems(items, woi, stock))
          /\ UNCHANGED <<stock, wo, woi, bills, payments, po, poi>>]_vars

\* C24: after every bill creation or bill cancellation on a work order that
\* is not cancelled, the status of the work order is COMPLETED if and only if
\* every one of its items has pending_quantity 0; otherwise it is
\* PARTIALLY_DELIVERED if some item has delivered_quantity > 0 and ACTIVE if
\* none has.
C24_StatusFollowsItems ==
  [][(last'.op \in {"create", "cancel"} /\ last'.ok) =>
       LET w == bills'[last'.bill].work_order
           items == ItemsOf(w, woi')
       IN (wo[w].status # "CANCELLED" /\ items # {}) =>
            /\ wo'[w].status = "COMPLETED"
                 <=> \A i \in items : woi'[i].pending_quantity = 0
            /\ wo'[w].status # "COMPLETED" =>
                 wo'[w].status =
                   IF \E i \in items : woi'[i].delivered_quantity > 0
                   THEN "PARTIALLY_DELIVERED" ELSE "ACTIVE"]_vars

\* the status the receipts of purchase order o call for
StatusOfReceipts(o) ==
  LET items == PoItemsOf(o, poi)
  IN IF \A q \in items : poi[q].is_received THEN "COMPLETED"
     ELSE IF \E q \in items : poi[q].is_received THEN "PARTIALLY_RECEIVED"
     ELSE "PENDING"

\* C25: after any sequence of item receipts and purchase-order cancellations,
\* a purchase order that is not CANCELLED has the status its receipts call
\* for: COMPLETED if all its items are received, PARTIALLY_RECEIVED if some
\* are, PENDING if none is.
C25_StatusFollowsReceipts ==
  \A o \in PurchaseOrders :
    po[o].status # "CANCELLED" => po[o].status = StatusOfReceipts(o)

\* the rest of that claim: a CANCELLED purchase order stays CANCELLED, and a
\* receipt on it is rejected and changes no stock and no is_received flag
CancelledPurchaseOrderStays ==
  [][\A o \in PurchaseOrders :
       po[o].status = "CANCELLED" =>
         /\ po'[o].status = "CANCELLED"
         /\ last'.op \in {"receive", "receive_all"} =>
              /\ ~last'.ok
              /\ UNCHANGED <<stock, poi>>]_vars

\* C26: within one calendar year the bills created one after another receive
\* the sequence numbers 1, 2, 3, ... in the order of their creation: a request
\* that passes validation creates a bill whose number is one more than the
\* number of bills the year has; every bill_number is unique and the number of
\* a bill keeps being its own after the bill is cancelled.
C26_BillNumbersAreSequential ==
  [][/\ \A w \in WorkOrders, items \in ItemLists :
          (/\ ValidateWorkOrder(w, wo) /\ ValidateItems(items, woi, stock)
           /\ BillCreate(w, items)) =>
             /\ last'.ok
             /\ Len(bills') = Len(bills) + 1
             /\ ParseInt(bills'[Len(bills')].bill_number) = earlier + Len(bills) + 1
     /\ \A b \in BillIds : bills'[b].bill_number = bills[b].bill_number
     /\ \A b, c \in 1..Len(bills') :
          bills'[b].bill_number = bills'[c].bill_number => b = c
     /\ \A b \in 1..Len(bills') : ParseInt(bills'[b].bill_number) > earlier]_vars

\* C27: immediately after a successful bill creation the new bill has subtotal
\* = the sum over its items of delivered_quantity x rate, the three tax
\* amounts at the percentages of the work order, total_amount = subtotal plus
\* the tax amounts, advance_deducted = min(total_amount, the advance_remaining
\* of the work order before the bill), net_payable = total_amount -
\* advance_deducted, amount_paid = 0, balance = net_payable, status GENERATED
\* and no payment row.
C27_NewBillAmounts ==
  [][(last'.op = "create" /\ last'.ok) =>
       LET b == Len(bills')
           bill == bills'[b]
           worow == wo[bill.work_order]
           n == Len(bill.items)
       IN /\ n > 0
          /\ \A k \in 1..n : bill.items[k].rate = woi[bill.items[k].work_order_item].rate
          /\ bill.subtotal =
               SumSeq([k \in 1..n |-> bill.items[k].delivered_quantity * bill.items[k].rate], n)
          /\ 100 * bill.cgst_amount = bill.subtotal * worow.cgst_percentage
          /\ 100 * bill.sgst_amount = bill.subtotal * worow.sgst_percentage
          /\ 100 * bill.igst_amount = bill.subtotal * worow.igst_percentage
          /\ bill.total_amount =
               bill.subtotal + bill.cgst_amount + bill.sgst_amount + bill.igst_amount
          /\ bill.advance_deducted = Min(bill.total_amount, worow.advance_remaining)
          /\ bill.net_payable = bill.total_amount - bill.advance_deducted
          /\ bill.amount_paid = 0
          /\ bill.balance = bill.net_payable
          /\ bill.status = "GENERATED"
          /\ PaymentsOf(b, payments') = {}]_vars

\* a bill was created that took what was left of the advance, less than its
\* total, on a work order that had given advance to an earlier bill
C27_Witness ==
  /\ last.op = "create" /\ last.ok
  /\ bills[last.bill].advance_deducted > 0
  /\ bills[last.bill].advance_deducted < bills[last.bill].total_amount
  /\ bills[last.bill].net_payable > 0
  /\ \E c \in BillIds :
       /\ c # last.bill
       /\ bills[c].work_order = bills[last.bill].work_order
       /\ bills[c].advance_deducted > 0

\* C28: the work order item of every bill item belongs to the work order of
\* the bill, and bill creation changes the delivered_quantity of no item of
\* another work order than the one the bill is raised against.
C28_BillItemsBelongToWorkOrder ==
  [][(last'.op = "create" /\ last'.ok) =>
       LET bill == bills'[last'.bill]
       IN /\ \A k \in 1..Len(bill.items) :
               woi[bill.items[k].work_order_item].work_order = bill.work_order
          /\ \A i \in WorkOrderItems :
               woi'[i].delivered_quantity # woi[i].delivered_quantity
                 => woi[i].work_order = bill.work_order]_vars

\* what the purchase order items marked received have brought of product p
ReceivedOfProduct(p) ==
  LET mine == {q \in PurchaseOrderItems : poi[q].is_received /\ poi[q].product = p}
  IN SumOver(mine, [q \in mine |-> poi[q].quantity])

\* C29: after any sequence of bill creation, bill cancellation, purchase-order
\* receipt and purchase-order cancellation served one at a time, the stock of
\* each product is its initial stock, plus the quantity of the purchase order
\* items of the product that are marked received, minus the delivered_quantity
\* of the bill items of the product in bills that are not cancelled.
C29_StockIsReceiptsMinusDeliveries ==
  \A p \in Products :
    stock[p] =
      InitStock[p] + ReceivedOfProduct(p)
        - SumOver(LiveBills, [b \in LiveBills |-> TakenByBill(bills[b], p)])

\* an item is received, a bill that delivered the product is live and
\* another one is cancelled
C29_Witness ==
  /\ \E q \in PurchaseOrderItems : poi[q].is_received
  /\ \E b, c \in BillIds :
       /\ bills[b].status = "GENERATED" /\ bills[c].status = "CANCELLED"
       /\ \E p \in Products : TakenByBill(bills[b], p) > 0 /\ TakenByBill(bills[c], p) > 0

\* C30: for any interleaving of two concurrent cancel requests on the same
\* bill, the effects of the bill are reversed once, not twice: the stock of
\* every product, the delivered_quantity of every work order item and the
\* advance_deducted and total_delivered_value of every work order are what
\* the bills that are not cancelled account for.
C30_CancelledOnce ==
  /\ \A p \in Products :
       stock[p] =
         InitStock[p] - SumOver(LiveBills, [b \in LiveBills |-> TakenByBill(bills[b], p)])
  /\ \A i \in WorkOrderItems :
       woi[i].delivered_quantity =
         InitWorkOrderItem[i].delivered_quantity
           + SumOver(LiveBills, [b \in LiveBills |-> DeliveredInBill(bills[b], i)])
  /\ \A w \in WorkOrders :
       LET mine == {b \in LiveBills : bills[b].work_order = w}
       IN /\ wo[w].advance_deducted =
               SumOver(mine, [b \in mine |-> bills[b].advance_deducted])
          /\ wo[w].total_delivered_value =
               SumOver(mine, [b \in mine |-> bills[b].total_amount])

====
